---- MODULE Spec2Model ----
(***************************************************************************)
(* QuillCAD: the sketch / selection / extrusion core of src/main.rs.       *)
(*                                                                         *)
(* Lengths are integers in units of 0.05 (so the selection tolerance 0.1   *)
(* is 2 units) and f32 arithmetic is modelled by exact real arithmetic: a  *)
(* squared distance is a rational [num, den], a circle radius is kept by   *)
(* its square (radius = sqrt(radius_sq)) and the circle metric             *)
(* (sqrt(a) - sqrt(b))^2 is kept as [a, b]; every comparison is decided    *)
(* exactly by squaring.                                                    *)
(*                                                                         *)
(* A step of the model is one frame of the Update schedule (or the         *)
(* StateTransition schedule that precedes it).  A frame carries either one *)
(* widget interaction of the egui panel or the mouse-button state of the   *)
(* 3D view; the systems of the frame run in an order the scheduler picks,  *)
(* and the commands they queue are applied when the schedule ends.         *)
(***************************************************************************)
EXTENDS Integers, Sequences, FiniteSets, TLC

VARIABLES
  state,          \* State<AppState>
  next_state,     \* NextState<AppState>: None or the state asked for
  active_tool,    \* ActiveSketchTool
  sketch_data,    \* SketchData: [start_point, extrude_distance]
  sketches,       \* the entities carrying SketchLine / SketchCircle / SketchRectangle
  solids,         \* the PbrBundle entities spawned by extrude_system
  extrude_events, \* ExtrudeEvent's sent and not yet read by extrude_system
  env             \* the run's inputs: what the pointer and the widgets can deliver,
                  \* and how many entities the run may hold (never changes)

vars == <<state, next_state, active_tool, sketch_data, sketches, solids, extrude_events, env>>

\* Option::None (a Vec3 is a triple, so the empty tuple is no Vec3)
None == <<>>

\* NextState(None): no transition asked for
NoState == "None"

\* AppState and ActiveSketchTool
AppState == {"Viewing", "Sketching"}
ActiveSketchTool == {"Line", "Circle", "Rectangle", "Select"}
DrawingTools == {"Line", "Circle", "Rectangle"}

\* SketchData::default(): start_point None, extrude_distance 0.0
SketchDataDefault == [start_point |-> None, extrude_distance |-> 0]

(***************************************************************************)
(* Bounds of the model: the sketch entities and the solids a run may hold. *)
(***************************************************************************)
MaxSketches == 1
MaxSolids == 1
PairMaxSketches == 2
PairMaxSolids == 1
SolidsMaxSketches == 1
SolidsMaxSolids == 2
ExtrudeMaxSketches == 1
ExtrudeMaxSolids == 1
WinnerMaxSketches == 2
WinnerMaxSolids == 0

(***************************************************************************)
(* Inputs of the frames.                                                   *)
(***************************************************************************)
\* results of screen_to_world for a primary click while drawing
DrawPoints == {<<0, 0, 0>>, <<6, 0, 6>>}
\* results of screen_to_world for a click with the Select tool: the two draw
\* points, the centre <<3,0,3>>, an edge midpoint <<3,0,0>>, a point 1/sqrt(2)
\* off the diagonal, a point on the line x = 6 far above the square, and a
\* point far from everything
SelectPoints == {<<0, 0, 0>>, <<6, 0, 6>>, <<3, 0, 3>>, <<3, 0, 0>>, <<3, 0, 2>>,
                 <<6, 0, 10>>, <<9, 0, 9>>}

\* a drawing session: one sketch at a time, one solid, two extrude distances
EnvSession ==
  [draw_points |-> DrawPoints, select_points |-> SelectPoints, distances |-> {0, 4},
   max_sketches |-> MaxSketches, max_solids |-> MaxSolids]
\* two sketches side by side
EnvPair ==
  [draw_points |-> DrawPoints,
   select_points |-> {<<6, 0, 6>>, <<3, 0, 3>>, <<3, 0, 0>>, <<6, 0, 10>>, <<9, 0, 9>>},
   distances |-> {0},
   max_sketches |-> PairMaxSketches, max_solids |-> PairMaxSolids]
\* repeated extrusion
EnvSolids ==
  [draw_points |-> DrawPoints, select_points |-> {<<0, 0, 0>>, <<9, 0, 9>>},
   distances |-> {0}, max_sketches |-> SolidsMaxSketches, max_solids |-> SolidsMaxSolids]
\* extrusion by negative, zero and positive distances
EnvExtrude ==
  [draw_points |-> DrawPoints, select_points |-> {<<0, 0, 0>>, <<6, 0, 6>>},
   distances |-> {-4, 0, 4}, max_sketches |-> ExtrudeMaxSketches,
   max_solids |-> ExtrudeMaxSolids]
\* two sketches competing for clicks that are near them but not on them
EnvWinner ==
  [draw_points |-> DrawPoints,
   select_points |-> {<<6, 0, 7>>, <<6, 0, 6>>, <<3, 0, 2>>, <<9, 0, 9>>},
   distances |-> {0}, max_sketches |-> WinnerMaxSketches, max_solids |-> WinnerMaxSolids]

(***************************************************************************)
(* Vec3                                                                    *)
(***************************************************************************)
Sub(p, q) == <<p[1] - q[1], p[2] - q[2], p[3] - q[3]>>
Dot(p, q) == p[1] * q[1] + p[2] * q[2] + p[3] * q[3]
LengthSquared(p) == Dot(p, p)
DistanceSquared(p, q) == LengthSquared(Sub(p, q))
Min(a, b) == IF a <= b THEN a ELSE b
Max(a, b) == IF a >= b THEN a ELSE b
Abs(a) == IF a < 0 THEN 0 - a ELSE a

(***************************************************************************)
(* Sketch components.  A circle's radius start_pos.distance(world_pos) is  *)
(* kept as its square.                                                     *)
(***************************************************************************)
SketchLine(p1, p2) == [kind |-> "Line", p1 |-> p1, p2 |-> p2, radius_sq |-> 0]
SketchCircle(center, radius_sq) ==
  [kind |-> "Circle", p1 |-> center, p2 |-> center, radius_sq |-> radius_sq]
SketchRectangle(p1, p2) == [kind |-> "Rectangle", p1 |-> p1, p2 |-> p2, radius_sq |-> 0]

\* a spawned sketch entity: its component, the Selected marker, Visibility::Hidden
Entity(c) == [sketch |-> c, selected |-> FALSE, hidden |-> FALSE]

(***************************************************************************)
(* Commands: the deferred world edits a system queues.  They are applied,  *)
(* in queue order, when the schedule that ran the system ends.             *)
(***************************************************************************)
Spawn(c) == [op |-> "spawn", entity |-> 0, bundle |-> c]
SpawnSolid(s) == [op |-> "spawn_solid", entity |-> 0, bundle |-> s]
InsertSelected(e) == [op |-> "insert_selected", entity |-> e, bundle |-> None]
RemoveSelected(e) == [op |-> "remove_selected", entity |-> e, bundle |-> None]
InsertHidden(e) == [op |-> "insert_hidden", entity |-> e, bundle |-> None]
Despawn(e) == [op |-> "despawn", entity |-> e, bundle |-> None]

\* one command applied to the world w = [sketches, solids, despawned]
ApplyCommand(w, c) ==
  CASE c.op = "spawn" ->
         [w EXCEPT !.sketches = Append(@, Entity(c.bundle))]
    [] c.op = "spawn_solid" ->
         [w EXCEPT !.solids = Append(@, c.bundle)]
    [] c.op = "insert_selected" ->
         [w EXCEPT !.sketches[c.entity].selected = TRUE]
    [] c.op = "remove_selected" ->
         [w EXCEPT !.sketches[c.entity].selected = FALSE]
    [] c.op = "insert_hidden" ->
         [w EXCEPT !.sketches[c.entity].hidden = TRUE]
    [] c.op = "despawn" ->
         [w EXCEPT !.despawned = @ \cup {c.entity}]

RECURSIVE ApplyQueue(_, _)
ApplyQueue(w, q) ==
  IF q = <<>> THEN w ELSE ApplyQueue(ApplyCommand(w, Head(q)), Tail(q))

RECURSIVE Surviving(_, _, _)
Surviving(sk, dead, i) ==
  IF i > Len(sk) THEN <<>>
  ELSE (IF i \in dead THEN <<>> ELSE <<sk[i]>>) \o Surviving(sk, dead, i + 1)

\* a variant in which a queue that despawns sketches takes the solids with them
ApplyDeferredDropsSolids(sk, so, q) ==
  LET w == ApplyQueue([sketches |-> sk, solids |-> so, despawned |-> {}], q)
  IN [sketches |-> Surviving(w.sketches, w.despawned, 1),
      solids |-> IF w.despawned # {} THEN <<>> ELSE w.solids]

\* the world after the queue q is applied to (sk, so)
ApplyDeferred(sk, so, q) ==
  LET w == ApplyQueue([sketches |-> sk, solids |-> so, despawned |-> {}], q)
  IN [sketches |-> Surviving(w.sketches, w.despawned, 1), solids |-> w.solids]

\* the entities a query over the sketch components of `kind` matches
Matching(sk, kind) == {i \in 1..Len(sk) : sk[i].sketch.kind = kind}

\* a set of entities as a sequence, in entity order
RECURSIVE InOrder(_)
InOrder(S) ==
  IF S = {} THEN <<>>
  ELSE LET m == CHOOSE x \in S : \A y \in S : x <= y
       IN <<m>> \o InOrder(S \ {m})

RECURSIVE FlatMap(_, _)
FlatMap(F(_), s) == IF s = <<>> THEN <<>> ELSE F(Head(s)) \o FlatMap(F, Tail(s))

(***************************************************************************)
(* on_sketch_enter / on_sketch_exit, run by the StateTransition schedule   *)
(* of the frame after ui_system set NextState.                             *)
(***************************************************************************)
DespawnAll(sk, kind) == FlatMap(LAMBDA e : <<Despawn(e)>>, InOrder(Matching(sk, kind)))

\* a variant without the loop over q_rectangles
OnSketchEnterCommandsNoRectangles(sk) ==
  DespawnAll(sk, "Line") \o DespawnAll(sk, "Circle")

OnSketchEnterCommands(sk) ==
  DespawnAll(sk, "Line") \o DespawnAll(sk, "Circle") \o DespawnAll(sk, "Rectangle")

on_sketch_enter ==
  /\ next_state = "Sketching"
  /\ state' = "Sketching"
  /\ next_state' = NoState
  /\ sketch_data' = SketchDataDefault
  /\ LET w == ApplyDeferred(sketches, solids, OnSketchEnterCommands(sketches))
     IN /\ sketches' = w.sketches
        /\ solids' = w.solids
  /\ UNCHANGED <<active_tool, extrude_events, env>>

\* a variant that leaves SketchData as it is
on_sketch_exit_keeps_data ==
  /\ next_state = "Viewing"
  /\ state' = "Viewing"
  /\ next_state' = NoState
  /\ UNCHANGED <<active_tool, sketch_data, sketches, solids, extrude_events, env>>

\* a variant that clears the pending anchor and keeps the extrude distance
on_sketch_exit_keeps_distance ==
  /\ next_state = "Viewing"
  /\ state' = "Viewing"
  /\ next_state' = NoState
  /\ sketch_data' = [sketch_data EXCEPT !.start_point = None]
  /\ UNCHANGED <<active_tool, sketches, solids, extrude_events, env>>

\* a variant that resets the extrude distance and keeps the pending anchor
on_sketch_exit_keeps_anchor ==
  /\ next_state = "Viewing"
  /\ state' = "Viewing"
  /\ next_state' = NoState
  /\ sketch_data' = [sketch_data EXCEPT !.extrude_distance = 0]
  /\ UNCHANGED <<active_tool, sketches, solids, extrude_events, env>>

on_sketch_exit ==
  /\ next_state = "Viewing"
  /\ state' = "Viewing"
  /\ next_state' = NoState
  /\ sketch_data' = SketchDataDefault
  /\ UNCHANGED <<active_tool, sketches, solids, extrude_events, env>>

(***************************************************************************)
(* extrude_system: for every ExtrudeEvent read, one solid per selected     *)
(* sketch, and Visibility::Hidden on the sketch.                           *)
(***************************************************************************)
\* extrude_distance / 2.0 and (min + max) / 2.0 (the inputs are even)
Half(a) == a \div 2

\* a variant with the two translated vertices in the other order
ExtrudeLineSwapped(line, extrude_distance) ==
  LET p1 == line.p1
      p2 == line.p2
      v3 == <<p1[1], p1[2] + extrude_distance, p1[3]>>
      v4 == <<p2[1], p2[2] + extrude_distance, p2[3]>>
  IN [mesh |-> "Mesh", positions |-> <<p1, p2, v3, v4>>, indices |-> <<0, 1, 2, 0, 2, 3>>,
      size |-> <<0, 0, 0>>, radius_sq |-> 0, translation |-> <<0, 0, 0>>]

ExtrudeLine(line, extrude_distance) ==
  LET p1 == line.p1
      p2 == line.p2
      v1 == p1
      v2 == p2
      v3 == <<p2[1], p2[2] + extrude_distance, p2[3]>>
      v4 == <<p1[1], p1[2] + extrude_distance, p1[3]>>
  IN [mesh |-> "Mesh", positions |-> <<v1, v2, v3, v4>>, indices |-> <<0, 1, 2, 0, 2, 3>>,
      size |-> <<0, 0, 0>>, radius_sq |-> 0, translation |-> <<0, 0, 0>>]

ExtrudeCircle(circle, extrude_distance) ==
  [mesh |-> "Cylinder", positions |-> <<>>, indices |-> <<>>,
   size |-> <<0, extrude_distance, 0>>, radius_sq |-> circle.radius_sq,
   translation |-> <<circle.p1[1], Half(extrude_distance), circle.p1[3]>>]

\* a variant that takes the extents from p1 to p2 without min and max
ExtrudeRectangleSigned(rect, extrude_distance) ==
  LET width == rect.p2[1] - rect.p1[1]
      depth == rect.p2[3] - rect.p1[3]
      center_x == Half(rect.p1[1] + rect.p2[1])
      center_z == Half(rect.p1[3] + rect.p2[3])
  IN [mesh |-> "Cuboid", positions |-> <<>>, indices |-> <<>>,
      size |-> <<width, extrude_distance, depth>>, radius_sq |-> 0,
      translation |-> <<center_x, Half(extrude_distance), center_z>>]

ExtrudeRectangle(rect, extrude_distance) ==
  LET min_x == Min(rect.p1[1], rect.p2[1])
      max_x == Max(rect.p1[1], rect.p2[1])
      min_z == Min(rect.p1[3], rect.p2[3])
      max_z == Max(rect.p1[3], rect.p2[3])
      width == max_x - min_x
      depth == max_z - min_z
      center_x == Half(min_x + max_x)
      center_z == Half(min_z + max_z)
  IN [mesh |-> "Cuboid", positions |-> <<>>, indices |-> <<>>,
      size |-> <<width, extrude_distance, depth>>, radius_sq |-> 0,
      translation |-> <<center_x, Half(extrude_distance), center_z>>]

\* a variant of the queries without the With<Selected> filter
SelectedOfUnfiltered(sk, kind) == InOrder(Matching(sk, kind))

\* the entities a query With<Selected> over `kind` matches, in entity order
SelectedOf(sk, kind) == InOrder({e \in Matching(sk, kind) : sk[e].selected})

\* the commands of one pass of the loop over the events read
ExtrudeOnce(sk, extrude_distance) ==
     FlatMap(LAMBDA e : <<SpawnSolid(ExtrudeLine(sk[e].sketch, extrude_distance)),
                          InsertHidden(e)>>, SelectedOf(sk, "Line"))
  \o FlatMap(LAMBDA e : <<SpawnSolid(ExtrudeCircle(sk[e].sketch, extrude_distance)),
                          InsertHidden(e)>>, SelectedOf(sk, "Circle"))
  \o FlatMap(LAMBDA e : <<SpawnSolid(ExtrudeRectangle(sk[e].sketch, extrude_distance)),
                          InsertHidden(e)>>, SelectedOf(sk, "Rectangle"))

\* the commands extrude_system queues when it reads n events
RECURSIVE extrude_system(_, _, _)
extrude_system(n, sk, extrude_distance) ==
  IF n = 0 THEN <<>>
  ELSE ExtrudeOnce(sk, extrude_distance) \o extrude_system(n - 1, sk, extrude_distance)

\* the end of a frame of the Update schedule: the queued commands are applied
EndOfUpdate(q) ==
  LET w == ApplyDeferred(sketches, solids, q)
  IN /\ sketches' = w.sketches
     /\ solids' = w.solids
     /\ Len(w.sketches) <= env.max_sketches
     /\ Len(w.solids) <= env.max_solids

(***************************************************************************)
(* sketching_system, in a frame with the given mouse state: left and right *)
(* are just_pressed(Left / Right), world_pos is screen_to_world's result,  *)
(* using_pointer is egui's is_using_pointer().  extrude_system reads the   *)
(* events left unread by the frame before.                                 *)
(***************************************************************************)
\* a variant that builds the Line from the second click to the anchor
SketchingCommandsSwapped(tool, start_pos, world_pos) ==
  CASE tool = "Line" -> <<Spawn(SketchLine(world_pos, start_pos))>>
    [] tool = "Circle" ->
         <<Spawn(SketchCircle(start_pos, DistanceSquared(start_pos, world_pos)))>>
    [] tool = "Rectangle" -> <<Spawn(SketchRectangle(start_pos, world_pos))>>
    [] OTHER -> <<>>

SketchingCommands(tool, start_pos, world_pos) ==
  CASE tool = "Line" -> <<Spawn(SketchLine(start_pos, world_pos))>>
    [] tool = "Circle" ->
         <<Spawn(SketchCircle(start_pos, DistanceSquared(start_pos, world_pos)))>>
    [] tool = "Rectangle" -> <<Spawn(SketchRectangle(start_pos, world_pos))>>
    [] OTHER -> <<>>

\* start_point after the just_pressed(Left) branch
AfterLeft(left, start_point, world_pos) ==
  IF left THEN (IF start_point # None THEN None ELSE world_pos) ELSE start_point

\* start_point after the just_pressed(Right) branch
AfterRight(right, start_point) == IF right THEN None ELSE start_point

\* a variant without the return on is_using_pointer()
sketching_system_under_ui(left, right, world_pos, using_pointer) ==
  /\ state = "Sketching"
  /\ next_state = NoState
  /\ active_tool \in DrawingTools
  /\ LET handled == world_pos # None
         start_pos == sketch_data.start_point
         q == IF handled /\ left /\ start_pos # None
              THEN SketchingCommands(active_tool, start_pos, world_pos)
              ELSE <<>>
     IN /\ sketch_data' =
             IF handled
             THEN [sketch_data EXCEPT
                     !.start_point = AfterRight(right, AfterLeft(left, @, world_pos))]
             ELSE sketch_data
        /\ EndOfUpdate(q \o extrude_system(extrude_events, sketches,
                                           sketch_data.extrude_distance))
  /\ extrude_events' = 0
  /\ UNCHANGED <<state, next_state, active_tool, env>>

sketching_system(left, right, world_pos, using_pointer) ==
  /\ state = "Sketching"
  /\ next_state = NoState
  /\ active_tool \in DrawingTools
  /\ LET handled == ~using_pointer /\ world_pos # None
         start_pos == sketch_data.start_point
         q == IF handled /\ left /\ start_pos # None
              THEN SketchingCommands(active_tool, start_pos, world_pos)
              ELSE <<>>
     IN /\ sketch_data' =
             IF handled
             THEN [sketch_data EXCEPT
                     !.start_point = AfterRight(right, AfterLeft(left, @, world_pos))]
             ELSE sketch_data
        /\ EndOfUpdate(q \o extrude_system(extrude_events, sketches,
                                           sketch_data.extrude_distance))
  /\ extrude_events' = 0
  /\ UNCHANGED <<state, next_state, active_tool, env>>

(***************************************************************************)
(* The metrics of selection_system, as exact reals:                        *)
(*   Rational(n, d)  is n / d                 (a squared distance)         *)
(*   CircleMetric(a, b) is (sqrt(a) - sqrt(b))^2                           *)
(*   F32Max          is f32::MAX                                           *)
(***************************************************************************)
Rational(n, d) == [form |-> "rational", x |-> n, y |-> d]
CircleMetric(a, b) == [form |-> "circle", x |-> a, y |-> b]
F32Max == [form |-> "max", x |-> 0, y |-> 0]
Zero == Rational(0, 1)

\* let tolerance_sq = 0.1 * 0.1, in squared units of 0.05
ToleranceSq == 4
\* tolerance_sq.sqrt()
ToleranceSqrt == CHOOSE r \in 0..ToleranceSq : r * r = ToleranceSq

\* sqrt(x1) + k < sqrt(x2), for naturals x1, x2 and an integer k
SqrtPlusLess(x1, k, x2) ==
  LET m == x2 - k * k - x1
  IN IF k >= 0
     THEN m > 0 /\ 4 * k * k * x1 < m * m
     ELSE x1 < k * k \/ m > 0 \/ m * m < 4 * k * k * x1

\* m1 < m2
MetricLess(m1, m2) ==
  CASE m2.form = "max" -> m1.form # "max"
    [] m1.form = "max" -> FALSE
    [] m1.form = "rational" /\ m2.form = "rational" -> m1.x * m2.y < m2.x * m1.y
    [] m1.form = "circle" /\ m2.form = "rational" ->
         \* (sqrt a - sqrt b)^2 < n/d  iff  d(a+b) - n < 2d sqrt(ab)
         LET k == m2.y * (m1.x + m1.y) - m2.x
         IN k < 0 \/ k * k < 4 * m2.y * m2.y * m1.x * m1.y
    [] m1.form = "rational" /\ m2.form = "circle" ->
         \* n/d < (sqrt a - sqrt b)^2  iff  2d sqrt(ab) < d(a+b) - n
         LET k == m1.y * (m2.x + m2.y) - m1.x
         IN k > 0 /\ 4 * m1.y * m1.y * m2.x * m2.y < k * k
    [] OTHER ->
         \* with a >= b and c >= e:  sqrt a - sqrt b < sqrt c - sqrt e
         \*   iff  sqrt a + sqrt e < sqrt c + sqrt b
         \*   iff  sqrt(4ae) + (a+e-c-b) < sqrt(4cb)
         LET a == Max(m1.x, m1.y)
             b == Min(m1.x, m1.y)
             c == Max(m2.x, m2.y)
             e == Min(m2.x, m2.y)
         IN SqrtPlusLess(4 * a * e, a + e - c - b, 4 * c * b)

(***************************************************************************)
(* point_line_segment_distance_sq                                          *)
(***************************************************************************)
point_line_segment_distance_sq(p, a, b) ==
  LET ap == Sub(p, a)
      ab == Sub(b, a)
      ab_len_sq == LengthSquared(ab)
  IN IF ab_len_sq = 0 THEN Rational(LengthSquared(ap), 1)
     \* t = ap.dot(ab) / ab_len_sq
     ELSE IF Dot(ap, ab) < 0 THEN Rational(LengthSquared(ap), 1)
     ELSE IF Dot(ap, ab) > ab_len_sq THEN Rational(LengthSquared(Sub(p, b)), 1)
     \* |p - (a + t ab)|^2 = |ap|^2 - (ap.ab)^2 / |ab|^2
     ELSE Rational(LengthSquared(ap) * ab_len_sq - Dot(ap, ab) * Dot(ap, ab), ab_len_sq)

(***************************************************************************)
(* selection_system                                                        *)
(***************************************************************************)
\* a variant of the loop body over q_lines without the tolerance test
LineStepNoTolerance(c, e, sk, world_mouse_pos) ==
  LET line == sk[e].sketch
      dist_sq == point_line_segment_distance_sq(world_mouse_pos, line.p1, line.p2)
  IN IF MetricLess(dist_sq, c.min_distance_sq)
     THEN [min_distance_sq |-> dist_sq, closest_entity |-> e]
     ELSE c

\* the loop body over q_lines
LineStep(c, e, sk, world_mouse_pos) ==
  LET line == sk[e].sketch
      dist_sq == point_line_segment_distance_sq(world_mouse_pos, line.p1, line.p2)
  IN IF MetricLess(dist_sq, Rational(ToleranceSq, 1)) /\ MetricLess(dist_sq, c.min_distance_sq)
     THEN [min_distance_sq |-> dist_sq, closest_entity |-> e]
     ELSE c

\* a variant of the loop body over q_circles without the < min_distance_sq test
CircleStepLast(c, e, sk, world_mouse_pos) ==
  LET circle == sk[e].sketch
      dist_sq == DistanceSquared(world_mouse_pos, circle.p1)
      dist_from_circumference_sq == CircleMetric(dist_sq, circle.radius_sq)
  IN IF MetricLess(dist_from_circumference_sq, Rational(ToleranceSq, 1))
     THEN [min_distance_sq |-> dist_from_circumference_sq, closest_entity |-> e]
     ELSE c

\* the loop body over q_circles
CircleStep(c, e, sk, world_mouse_pos) ==
  LET circle == sk[e].sketch
      dist_sq == DistanceSquared(world_mouse_pos, circle.p1)
      dist_from_circumference_sq == CircleMetric(dist_sq, circle.radius_sq)
  IN IF /\ MetricLess(dist_from_circumference_sq, Rational(ToleranceSq, 1))
        /\ MetricLess(dist_from_circumference_sq, c.min_distance_sq)
     THEN [min_distance_sq |-> dist_from_circumference_sq, closest_entity |-> e]
     ELSE c

\* the test of the loop over q_rectangles
RectangleHit(rect, world_mouse_pos) ==
  LET min_x == Min(rect.p1[1], rect.p2[1])
      max_x == Max(rect.p1[1], rect.p2[1])
      min_z == Min(rect.p1[3], rect.p2[3])
      max_z == Max(rect.p1[3], rect.p2[3])
      is_inside_x == world_mouse_pos[1] >= min_x /\ world_mouse_pos[1] <= max_x
      is_inside_z == world_mouse_pos[3] >= min_z /\ world_mouse_pos[3] <= max_z
      is_near_border == \/ Abs(world_mouse_pos[1] - min_x) < ToleranceSqrt
                        \/ Abs(world_mouse_pos[1] - max_x) < ToleranceSqrt
                        \/ Abs(world_mouse_pos[3] - min_z) < ToleranceSqrt
                        \/ Abs(world_mouse_pos[3] - max_z) < ToleranceSqrt
  IN (is_inside_x /\ is_inside_z) \/ is_near_border

\* a variant of the loop body over q_rectangles without the 0.0 < min_distance_sq test
RectangleStepAlways(c, e, sk, world_mouse_pos) ==
  IF RectangleHit(sk[e].sketch, world_mouse_pos)
  THEN [min_distance_sq |-> Zero, closest_entity |-> e]
  ELSE c

\* the loop body over q_rectangles
RectangleStep(c, e, sk, world_mouse_pos) ==
  IF RectangleHit(sk[e].sketch, world_mouse_pos) /\ MetricLess(Zero, c.min_distance_sq)
  THEN [min_distance_sq |-> Zero, closest_entity |-> e]
  ELSE c

RECURSIVE Loop(_, _, _, _, _)
Loop(Step(_, _, _, _), c, es, sk, world_mouse_pos) ==
  IF es = <<>> THEN c
  ELSE Loop(Step, Step(c, Head(es), sk, world_mouse_pos), Tail(es), sk, world_mouse_pos)

\* the entities of `kind` in the order the query iterates them: a query's
\* iteration order follows the archetype tables, not the order of spawning
Iter(order, sk, kind) == SelectSeq(order, LAMBDA e : sk[e].sketch.kind = kind)

\* the orders in which the queries may iterate n entities
QueryOrders(n) == {o \in [1..n -> 1..n] : \A i, j \in 1..n : o[i] = o[j] => i = j}

\* closest_entity after the three hit-test loops (0: None)
Closest(sk, world_mouse_pos, order) ==
  LET c0 == [min_distance_sq |-> F32Max, closest_entity |-> 0]
      c1 == Loop(LineStep, c0, Iter(order, sk, "Line"), sk, world_mouse_pos)
      c2 == Loop(CircleStep, c1, Iter(order, sk, "Circle"), sk, world_mouse_pos)
      c3 == Loop(RectangleStep, c2, Iter(order, sk, "Rectangle"), sk, world_mouse_pos)
  IN c3.closest_entity

\* a variant without the deselecting loop over q_circles
SelectionCommandsSkipCircles(sk, world_mouse_pos, order) ==
  LET Deselect(e) == IF sk[e].selected THEN <<RemoveSelected(e)>> ELSE <<>>
      closest_entity == Closest(sk, world_mouse_pos, order)
  IN    FlatMap(Deselect, Iter(order, sk, "Line"))
     \o FlatMap(Deselect, Iter(order, sk, "Rectangle"))
     \o (IF closest_entity # 0 THEN <<InsertSelected(closest_entity)>> ELSE <<>>)

\* a variant that never removes a Selected marker
SelectionCommandsNoRemove(sk, world_mouse_pos, order) ==
  LET closest_entity == Closest(sk, world_mouse_pos, order)
  IN IF closest_entity # 0 THEN <<InsertSelected(closest_entity)>> ELSE <<>>

\* "remove every Selected, then insert it on closest_entity"
SelectionCommands(sk, world_mouse_pos, order) ==
  LET Deselect(e) == IF sk[e].selected THEN <<RemoveSelected(e)>> ELSE <<>>
      closest_entity == Closest(sk, world_mouse_pos, order)
  IN    FlatMap(Deselect, Iter(order, sk, "Line"))
     \o FlatMap(Deselect, Iter(order, sk, "Circle"))
     \o FlatMap(Deselect, Iter(order, sk, "Rectangle"))
     \o (IF closest_entity # 0 THEN <<InsertSelected(closest_entity)>> ELSE <<>>)

\* a variant that hit-tests in every frame, whichever button was pressed
selection_system_any_button(left, world_mouse_pos, using_pointer, order) ==
  /\ state = "Sketching"
  /\ next_state = NoState
  /\ active_tool = "Select"
  /\ extrude_events' = 0
  /\ UNCHANGED <<state, next_state, active_tool, sketch_data, env>>
  /\ LET q == IF ~using_pointer /\ world_mouse_pos # None
              THEN SelectionCommands(sketches, world_mouse_pos, order)
              ELSE <<>>
     IN EndOfUpdate(q \o extrude_system(extrude_events, sketches,
                                        sketch_data.extrude_distance))

\* (the system never reads just_pressed(Right): a frame with left = FALSE is
\* any frame without a primary click, a secondary press included)
selection_system(left, world_mouse_pos, using_pointer, order) ==
  /\ state = "Sketching"
  /\ next_state = NoState
  /\ active_tool = "Select"
  /\ extrude_events' = 0
  /\ UNCHANGED <<state, next_state, active_tool, sketch_data, env>>
  /\ LET q == IF ~using_pointer /\ left /\ world_mouse_pos # None
              THEN SelectionCommands(sketches, world_mouse_pos, order)
              ELSE <<>>
     IN EndOfUpdate(q \o extrude_system(extrude_events, sketches,
                                        sketch_data.extrude_distance))

(***************************************************************************)
(* ui_system, one action per widget of the side panel.  In a frame of the  *)
(* Sketching state extrude_system runs too, before or after ui_system      *)
(* (ui_first): the tuple of Update systems is not ordered.                 *)
(***************************************************************************)
\* Viewing: the "start sketch" button
ui_start_sketch ==
  /\ state = "Viewing"
  /\ next_state = NoState
  /\ next_state' = "Sketching"
  /\ UNCHANGED <<state, active_tool, sketch_data, sketches, solids, extrude_events, env>>

\* a variant in which picking the Select tool also asks for the Viewing state
ui_select_tool_leaves(tool) ==
  /\ state = "Sketching"
  /\ next_state = NoState
  /\ active_tool' = tool
  /\ next_state' = IF tool = "Select" THEN "Viewing" ELSE next_state
  /\ EndOfUpdate(extrude_system(extrude_events, sketches, sketch_data.extrude_distance))
  /\ extrude_events' = 0
  /\ UNCHANGED <<state, sketch_data, env>>

\* Sketching: one of the four selectable_value's
ui_select_tool(tool) ==
  /\ state = "Sketching"
  /\ next_state = NoState
  /\ active_tool' = tool
  /\ EndOfUpdate(extrude_system(extrude_events, sketches, sketch_data.extrude_distance))
  /\ extrude_events' = 0
  /\ UNCHANGED <<state, next_state, sketch_data, env>>

\* Sketching: the DragValue bound to extrude_distance
ui_drag_distance(d, ui_first) ==
  /\ state = "Sketching"
  /\ next_state = NoState
  /\ sketch_data' = [sketch_data EXCEPT !.extrude_distance = d]
  /\ EndOfUpdate(extrude_system(extrude_events, sketches,
                                IF ui_first THEN d ELSE sketch_data.extrude_distance))
  /\ extrude_events' = 0
  /\ UNCHANGED <<state, next_state, active_tool, env>>

\* Sketching: the "extrude" button sends an ExtrudeEvent
ui_extrude(ui_first) ==
  /\ state = "Sketching"
  /\ next_state = NoState
  /\ EndOfUpdate(extrude_system(IF ui_first THEN extrude_events + 1 ELSE extrude_events,
                                sketches, sketch_data.extrude_distance))
  /\ extrude_events' = IF ui_first THEN 0 ELSE 1
  /\ UNCHANGED <<state, next_state, active_tool, sketch_data, env>>

\* Sketching: the "finish sketch" button
ui_finish_sketch ==
  /\ state = "Sketching"
  /\ next_state = NoState
  /\ next_state' = "Viewing"
  /\ EndOfUpdate(extrude_system(extrude_events, sketches, sketch_data.extrude_distance))
  /\ extrude_events' = 0
  /\ UNCHANGED <<state, active_tool, sketch_data, env>>

Start ==
  /\ state = "Viewing"
  /\ next_state = NoState
  /\ active_tool = "Line"
  /\ sketch_data = SketchDataDefault
  /\ sketches = <<>>
  /\ solids = <<>>
  /\ extrude_events = 0

Init == Start /\ env = EnvSession
InitPair == Start /\ env = EnvPair
InitSolids == Start /\ env = EnvSolids
InitExtrude == Start /\ env = EnvExtrude
InitWinner == Start /\ env = EnvWinner


\* The mouse state of a frame: just_pressed(Left), screen_to_world's result and
\* egui's is_using_pointer().  Both systems return on is_using_pointer() before
\* they read anything else, so one frame stands for all frames with it set.
MouseFrames(points) ==
  {f \in [left : BOOLEAN, world_pos : points \cup {None}, using_pointer : BOOLEAN] :
     f.using_pointer => (~f.left /\ f.world_pos = None)}

Next ==
  \/ ui_start_sketch
  \/ on_sketch_enter
  \/ on_sketch_exit
  \/ \E tool \in ActiveSketchTool : ui_select_tool(tool)
  \/ \E d \in env.distances, ui_first \in BOOLEAN : ui_drag_distance(d, ui_first)
  \/ \E ui_first \in BOOLEAN : ui_extrude(ui_first)
  \/ ui_finish_sketch
  \/ \E f \in MouseFrames(env.draw_points), right \in BOOLEAN :
       sketching_system(f.left, right, f.world_pos, f.using_pointer)
  \/ \E f \in MouseFrames(env.select_points), order \in QueryOrders(Len(sketches)) :
       selection_system(f.left, f.world_pos, f.using_pointer, order)

Spec == Init /\ [][Next]_vars
SpecPair == InitPair /\ [][Next]_vars
SpecSolids == InitSolids /\ [][Next]_vars
SpecExtrude == InitExtrude /\ [][Next]_vars
SpecWinner == InitWinner /\ [][Next]_vars


(***************************************************************************)
(* Properties.                                                             *)
(***************************************************************************)
\* the sketch components of the store, in entity order
Components(sk) == [i \in 1..Len(sk) |-> sk[i].sketch]
\* the entities carrying Selected
SelectedSet(sk) == {i \in 1..Len(sk) : sk[i].selected}

\* the primitive the two-click protocol builds from anchor a and point p
Built(tool, a, p) ==
  CASE tool = "Line" -> [kind |-> "Line", p1 |-> a, p2 |-> p, radius_sq |-> 0]
    [] tool = "Circle" ->
         [kind |-> "Circle", p1 |-> a, p2 |-> a,
          radius_sq |-> (a[1] - p[1]) * (a[1] - p[1]) + (a[3] - p[3]) * (a[3] - p[3])]
    [] tool = "Rectangle" -> [kind |-> "Rectangle", p1 |-> a, p2 |-> p, radius_sq |-> 0]

\* C1: with a drawing tool active, a frame whose mouse input is a primary click
\* at a valid point p (pointer not captured, no secondary press) sets the anchor
\* to p and leaves the store's primitives as they are when no anchor is pending;
\* with anchor a pending it appends exactly one primitive, built from (a, p) by
\* the active tool's rule, and leaves no anchor pending.
C1_TwoClickProtocol ==
  [][\A p \in env.draw_points :
       sketching_system(TRUE, FALSE, p, FALSE) =>
         IF sketch_data.start_point = None
         THEN /\ sketch_data'.start_point = p
              /\ Components(sketches') = Components(sketches)
         ELSE /\ sketch_data'.start_point = None
              /\ Components(sketches') =
                   Append(Components(sketches),
                          Built(active_tool, sketch_data.start_point, p))]_vars

\* a Line from <<0,0,0>> to <<6,0,6>> was committed and no anchor is pending
C1_Witness ==
  /\ sketch_data.start_point = None
  /\ Len(sketches) = 1
  /\ sketches[1].sketch = [kind |-> "Line", p1 |-> <<0, 0, 0>>, p2 |-> <<6, 0, 6>>,
                           radius_sq |-> 0]

\* C2: in every reachable state at most one primitive, across lines, circles
\* and rectangles together, carries the selected marker.
C2_AtMostOneSelected == Cardinality(SelectedSet(sketches)) <= 1

\* two primitives of different kinds; the first was selected and extruded, and
\* the selection has since moved to the second
C2_Witness ==
  /\ Len(sketches) = 2
  /\ sketches[1].sketch.kind # sketches[2].sketch.kind
  /\ sketches[1].hidden
  /\ SelectedSet(sketches) = {2}
  /\ solids # <<>>

\* C3 as stated: the step from Sketching to Viewing leaves the store empty and
\* nothing selected.
C3_ExitClearsStore ==
  [][(state = "Sketching" /\ state' = "Viewing") =>
       (sketches' = <<>> /\ SelectedSet(sketches') = {})]_vars

\* C3 as amended: the step from Sketching to Viewing resets the anchor and the
\* extrude distance and leaves the store and its selected marker as they were.
C3_ExitResetsSketchDataOnly ==
  [][(state = "Sketching" /\ state' = "Viewing") =>
       /\ sketch_data' = [start_point |-> None, extrude_distance |-> 0]
       /\ sketches' = sketches]_vars

\* back in Viewing with a selected primitive still in the store
C3_Witness ==
  /\ state = "Viewing"
  /\ Len(sketches) = 1
  /\ SelectedSet(sketches) = {1}

\* C4: entering Sketching empties the store whatever it held, and the frame of
\* the finish click and the exit that follows keep an empty store empty.
C4_EnterThenExitLeavesStoreEmpty ==
  [][/\ (state = "Viewing" /\ state' = "Sketching") => sketches' = <<>>
     /\ (sketches = <<>> /\ (next_state' = "Viewing" \/ state' = "Viewing"))
          => sketches' = <<>>]_vars

\* back in Viewing with an empty store after a session that extruded a primitive
\* and a second session that drew nothing
C4_Witness ==
  /\ state = "Viewing"
  /\ sketches = <<>>
  /\ solids # <<>>

\* a frame whose mouse input is a primary click at p with the Select tool
SelectClick(p) ==
  \E order \in QueryOrders(Len(sketches)) : selection_system(TRUE, p, FALSE, order)

\* C5: a primitive that was extruded (it carries Visibility::Hidden) does not
\* carry the selected marker after a selection click, wherever the click lands.
C5_ExtrudedNeverSelectedAgain ==
  [][\A p \in env.select_points :
       SelectClick(p) =>
         \A i \in 1..Len(sketches) : sketches[i].hidden => ~sketches'[i].selected]_vars

\* C6: once every selected primitive has been extruded, no step emits a solid:
\* a primitive is the source of at most one solid.
C6_ExtrudedAtMostOnce ==
  [][(\A i \in SelectedSet(sketches) : sketches[i].hidden) => solids' = solids]_vars

(***************************************************************************)
(* Plane geometry for the hit-test properties, in exact integer arithmetic *)
(* (x is component 1, z is component 3).                                   *)
(***************************************************************************)
\* the tolerance 0.1, in units of 0.05
T == 2

Cross(u, v) == u[1] * v[3] - u[3] * v[1]

\* p lies on the segment from a to b
OnSegment(p, a, b) ==
  LET ap == <<p[1] - a[1], 0, p[3] - a[3]>>
      ab == <<b[1] - a[1], 0, b[3] - a[3]>>
      d == ap[1] * ab[1] + ap[3] * ab[3]
  IN Cross(ap, ab) = 0 /\ 0 <= d /\ d <= ab[1] * ab[1] + ab[3] * ab[3]

\* p is farther than T from every point of the segment from a to b: from both
\* ends and, where its foot falls within the segment, from the carrying line
FarFromSegment(p, a, b) ==
  LET ap == <<p[1] - a[1], 0, p[3] - a[3]>>
      bp == <<p[1] - b[1], 0, p[3] - b[3]>>
      ab == <<b[1] - a[1], 0, b[3] - a[3]>>
      d == ap[1] * ab[1] + ap[3] * ab[3]
      l == ab[1] * ab[1] + ab[3] * ab[3]
  IN /\ ap[1] * ap[1] + ap[3] * ap[3] > T * T
     /\ bp[1] * bp[1] + bp[3] * bp[3] > T * T
     /\ (d <= 0 \/ d >= l \/ Cross(ap, ab) * Cross(ap, ab) > T * T * l)

\* sqrt(a) > sqrt(b) + T
SqrtExceedsBy(a, b) == a > b + T * T /\ (a - b - T * T) * (a - b - T * T) > 4 * T * T * b

\* p is farther than T from the circumference
FarFromCircle(p, center, radius_sq) ==
  LET a == (p[1] - center[1]) * (p[1] - center[1]) + (p[3] - center[3]) * (p[3] - center[3])
  IN SqrtExceedsBy(a, radius_sq) \/ SqrtExceedsBy(radius_sq, a)

\* the four corners of the rectangle with opposite corners p1 and p2, in order
Corners(p1, p2) ==
  LET x0 == IF p1[1] <= p2[1] THEN p1[1] ELSE p2[1]
      x1 == IF p1[1] <= p2[1] THEN p2[1] ELSE p1[1]
      z0 == IF p1[3] <= p2[3] THEN p1[3] ELSE p2[3]
      z1 == IF p1[3] <= p2[3] THEN p2[3] ELSE p1[3]
  IN <<<<x0, 0, z0>>, <<x1, 0, z0>>, <<x1, 0, z1>>, <<x0, 0, z1>>>>

InsideBox(p, p1, p2) ==
  LET c == Corners(p1, p2)
  IN c[1][1] <= p[1] /\ p[1] <= c[3][1] /\ c[1][3] <= p[3] /\ p[3] <= c[3][3]

\* p is outside the rectangle and farther than T from each of its four edges
FarFromRectangle(p, p1, p2) ==
  LET c == Corners(p1, p2)
  IN /\ ~InsideBox(p, p1, p2)
     /\ \A k \in 1..4 : FarFromSegment(p, c[k], c[(k % 4) + 1])

FarFrom(p, c) ==
  CASE c.kind = "Line" -> FarFromSegment(p, c.p1, c.p2)
    [] c.kind = "Circle" -> FarFromCircle(p, c.p1, c.radius_sq)
    [] c.kind = "Rectangle" -> FarFromRectangle(p, c.p1, c.p2)

\* p is inside the bounding box, or less than T from one of the four lines
\* x = min_x, x = max_x, z = min_z, z = max_z
InsideOrNearBorderLine(p, p1, p2) ==
  LET c == Corners(p1, p2)
      Near(u, v) == u - v < T /\ v - u < T
  IN \/ InsideBox(p, p1, p2)
     \/ Near(p[1], c[1][1]) \/ Near(p[1], c[3][1])
     \/ Near(p[3], c[1][3]) \/ Near(p[3], c[3][3])

\* C7 as stated: a selection click at a point farther than T from every
\* primitive of the store leaves no primitive selected.
C7_FarClickSelectsNothing ==
  [][\A p \in env.select_points :
       (SelectClick(p) /\ \A i \in 1..Len(sketches) : FarFrom(p, sketches[i].sketch))
         => SelectedSet(sketches') = {}]_vars

\* C7 as amended: a selection click at a point that is farther than T from
\* every line and circle of the store and, for every rectangle of the store,
\* outside its bounding box and at least T from each of the four lines through
\* its sides, leaves no primitive selected (stated contrapositively: a step that
\* leaves a primitive selected is not such a click).
C7_ClickClearOfEverythingSelectsNothing ==
  [][SelectedSet(sketches') # {} =>
       \A p \in env.select_points :
         (\A i \in 1..Len(sketches) :
            IF sketches[i].sketch.kind = "Rectangle"
            THEN ~InsideOrNearBorderLine(p, sketches[i].sketch.p1, sketches[i].sketch.p2)
            ELSE FarFrom(p, sketches[i].sketch))
           => ~SelectClick(p)]_vars

\* a line and a circle in the store, the line extruded while selected and
\* nothing selected now: a later click missed both
C7_Witness ==
  /\ Len(sketches) = 2
  /\ sketches[1].sketch.kind = "Line"
  /\ sketches[2].sketch.kind = "Circle"
  /\ sketches[1].hidden
  /\ SelectedSet(sketches) = {}

\* p is exactly on the boundary of c: a segment's midpoint, a point of the
\* circumference, the midpoint of a rectangle's edge
OnBoundary(p, c) ==
  CASE c.kind = "Line" -> 2 * p[1] = c.p1[1] + c.p2[1] /\ 2 * p[3] = c.p1[3] + c.p2[3]
    [] c.kind = "Circle" ->
         (p[1] - c.p1[1]) * (p[1] - c.p1[1]) + (p[3] - c.p1[3]) * (p[3] - c.p1[3])
           = c.radius_sq
    [] c.kind = "Rectangle" ->
         LET k == Corners(c.p1, c.p2)
         IN \E n \in 1..4 : /\ 2 * p[1] = k[n][1] + k[(n % 4) + 1][1]
                            /\ 2 * p[3] = k[n][3] + k[(n % 4) + 1][3]

\* the line or circle c passes exactly through p
PassesThrough(p, c) ==
  CASE c.kind = "Line" -> OnSegment(p, c.p1, c.p2)
    [] c.kind = "Circle" ->
         (p[1] - c.p1[1]) * (p[1] - c.p1[1]) + (p[3] - c.p1[3]) * (p[3] - c.p1[3])
           = c.radius_sq
    [] OTHER -> FALSE

\* C8 as stated: a selection click exactly on the boundary of a primitive of
\* the store selects that primitive, whatever else the store holds.
C8_BoundaryClickSelects ==
  [][\A p \in env.select_points :
       SelectClick(p) =>
         \A i \in 1..Len(sketches) :
           OnBoundary(p, sketches[i].sketch) => SelectedSet(sketches') = {i}]_vars

\* C8 as amended: a selection click exactly on the boundary of a primitive P of
\* the store selects P, provided no other line or circle of the store passes
\* exactly through the click point and, when P is a rectangle, no other
\* rectangle of the store is hit there (inside its bounding box or less than T
\* from a line through one of its sides); stated contrapositively: a step
\* that leaves anything but exactly P selected is not such a click.
C8_BoundaryClickSelectsUncontested ==
  [][\A p \in env.select_points :
       \A i \in 1..Len(sketches) :
         (/\ SelectedSet(sketches') # {i}
          /\ OnBoundary(p, sketches[i].sketch)
          /\ \A j \in 1..Len(sketches) \ {i} :
               /\ ~PassesThrough(p, sketches[j].sketch)
               /\ (sketches[i].sketch.kind = "Rectangle"
                     /\ sketches[j].sketch.kind = "Rectangle")
                    => ~InsideOrNearBorderLine(p, sketches[j].sketch.p1,
                                               sketches[j].sketch.p2))
           => ~SelectClick(p)]_vars

\* the full-size rectangle is selected beside the diagonal line, which misses
\* the midpoints of the rectangle's edges
C8_Witness ==
  /\ Len(sketches) = 2
  /\ sketches[1].sketch = [kind |-> "Line", p1 |-> <<0, 0, 0>>, p2 |-> <<6, 0, 6>>,
                           radius_sq |-> 0]
  /\ sketches[2].sketch = [kind |-> "Rectangle", p1 |-> <<6, 0, 6>>, p2 |-> <<0, 0, 0>>,
                           radius_sq |-> 0]
  /\ SelectedSet(sketches) = {2}

\* C9: a step that finds primitive x selected and leaves another primitive y
\* selected leaves exactly y selected, and x unselected.
C9_SelectingAnotherMovesTheSelection ==
  [][\A x, y \in 1..Len(sketches) :
       (x # y /\ x \in SelectedSet(sketches) /\ Len(sketches') = Len(sketches)
          /\ y \in SelectedSet(sketches'))
         => (SelectedSet(sketches') = {y} /\ ~sketches'[x].selected)]_vars

\* the circle was selected and extruded, and the selection has moved to the line
C9_Witness ==
  /\ Len(sketches) = 2
  /\ sketches[1].sketch.kind = "Circle"
  /\ sketches[2].sketch.kind = "Line"
  /\ sketches[1].hidden /\ ~sketches[1].selected
  /\ sketches[2].selected /\ ~sketches[2].hidden

\* C10: after a frame whose mouse input is a secondary press, whichever tool is
\* active and whatever screen_to_world returns, no anchor is pending and the
\* store's primitives are as they were.
C10_SecondaryPressCancels ==
  [][(\/ \E world_pos \in env.draw_points \cup {None} :
            sketching_system(FALSE, TRUE, world_pos, FALSE)
      \/ \E world_pos \in env.select_points \cup {None},
            order \in QueryOrders(Len(sketches)) :
            selection_system(FALSE, world_pos, FALSE, order))
       => (sketch_data'.start_point = None
             /\ Components(sketches') = Components(sketches))]_vars

\* the entities carrying Visibility::Hidden
HiddenSet(sk) == {i \in 1..Len(sk) : sk[i].hidden}

\* a frame whose mouse input is a secondary press alone, under any tool, with
\* or without a projection, the pointer captured by the panel or not
SecondaryPress ==
  \/ \E world_pos \in env.draw_points \cup {None}, using_pointer \in BOOLEAN :
       sketching_system(FALSE, TRUE, world_pos, using_pointer)
  \/ \E world_pos \in env.select_points \cup {None}, using_pointer \in BOOLEAN,
        order \in QueryOrders(Len(sketches)) :
       selection_system(FALSE, world_pos, using_pointer, order)

\* C11: a secondary press with no anchor pending leaves the anchor, the
\* extrude distance, the store's primitives, the selection, the active tool and
\* the mode as they were.
C11_IdleCancelChangesNothing ==
  [][(sketch_data.start_point = None /\ SecondaryPress)
       => /\ sketch_data' = sketch_data
          /\ Components(sketches') = Components(sketches)
          /\ SelectedSet(sketches') = SelectedSet(sketches)
          /\ active_tool' = active_tool
          /\ state' = state /\ next_state' = next_state]_vars

\* a circle is selected under the Select tool with no anchor pending: frames
\* without a primary click, secondary presses among them, leave it so
C11_Witness ==
  /\ state = "Sketching"
  /\ active_tool = "Select"
  /\ sketch_data.start_point = None
  /\ Len(sketches) = 1
  /\ sketches[1].sketch.kind = "Circle"
  /\ sketches[1].selected
  /\ ~sketches[1].hidden

\* C12: while no primitive is selected no step emits a solid or hides a
\* primitive, and the extrude command leaves the store (hidden flags and
\* selection included), the anchor and the extrude distance as they were.
C12_ExtrudeWithoutSelectionIsNoOp ==
  [][SelectedSet(sketches) = {}
       => /\ solids' = solids
          /\ \A i \in HiddenSet(sketches') : i \in HiddenSet(sketches)
          /\ (\E ui_first \in BOOLEAN : ui_extrude(ui_first))
               => (sketches' = sketches /\ sketch_data' = sketch_data)]_vars

\* the extrude button was pressed with a rectangle in the store and nothing
\* selected; the event is still unread and no solid exists
C12_Witness ==
  /\ extrude_events = 1
  /\ Len(sketches) = 1
  /\ sketches[1].sketch.kind = "Rectangle"
  /\ SelectedSet(sketches) = {}
  /\ HiddenSet(sketches) = {}
  /\ solids = <<>>

\* the solids a step emits, as indexes of solids'
Emitted == (Len(solids) + 1)..Len(solids')

\* the extrude distance extrude_system may read in a step: the value before or
\* after ui_system ran in the frame
DistancesRead == {sketch_data.extrude_distance, sketch_data'.extrude_distance}

\* s is the quad p1, p2, p2 + d * up, p1 + d * up with triangles (0,1,2), (0,2,3)
IsQuad(s, p1, p2, d) ==
  /\ s.mesh = "Mesh"
  /\ s.positions = <<p1, p2, <<p2[1], p2[2] + d, p2[3]>>, <<p1[1], p1[2] + d, p1[3]>>>>
  /\ s.indices = <<0, 1, 2, 0, 2, 3>>

\* C13: every solid a step emits while a Line {p1, p2} is selected is the quad
\* p1, p2, p2 + d*up, p1 + d*up with triangles (0,1,2) and (0,2,3), d the
\* extrude distance (negative, zero or positive); one extrude command read on
\* its own emits exactly one; p1=(0,0,0), p2=(1,0,0), d=2 (20 and 40 units of
\* 0.05) gives (0,0,0), (1,0,0), (1,2,0), (0,2,0).
C13_LineExtrudesToQuad ==
  [][/\ IsQuad(ExtrudeLine(SketchLine(<<0, 0, 0>>, <<20, 0, 0>>), 40),
               <<0, 0, 0>>, <<20, 0, 0>>, 40)
     /\ \A i \in SelectedSet(sketches) :
          sketches[i].sketch.kind = "Line" =>
            /\ \A k \in Emitted :
                 \E d \in DistancesRead :
                   IsQuad(solids'[k], sketches[i].sketch.p1, sketches[i].sketch.p2, d)
            /\ (extrude_events = 0 /\ ui_extrude(TRUE)) => Len(solids') = Len(solids) + 1]_vars

\* the line from (0,0,0) to (6,0,6) was extruded by -4
C13_Witness ==
  /\ Len(sketches) = 1
  /\ sketches[1].hidden
  /\ Len(solids) = 1
  /\ solids[1].mesh = "Mesh"
  /\ solids[1].positions = <<<<0, 0, 0>>, <<6, 0, 6>>, <<6, -4, 6>>, <<0, -4, 0>>>>

\* s is a cylinder of the circle's radius and height d centred at
\* (center.x, d/2, center.z)
IsCylinder(s, circle, d) ==
  /\ s.mesh = "Cylinder"
  /\ s.radius_sq = circle.radius_sq
  /\ s.size[2] = d
  /\ s.translation[1] = circle.p1[1]
  /\ 2 * s.translation[2] = d
  /\ s.translation[3] = circle.p1[3]

\* s is a box of width |p1.x - p2.x|, height d and depth |p1.z - p2.z| centred
\* at the midpoint of the corners and at d/2 vertically
IsBox(s, rect, d) ==
  LET Extent(a, b) == IF a >= b THEN a - b ELSE b - a
  IN /\ s.mesh = "Cuboid"
     /\ s.size = <<Extent(rect.p1[1], rect.p2[1]), d, Extent(rect.p1[3], rect.p2[3])>>
     /\ 2 * s.translation[1] = rect.p1[1] + rect.p2[1]
     /\ 2 * s.translation[2] = d
     /\ 2 * s.translation[3] = rect.p1[3] + rect.p2[3]

\* C14: every solid a step emits while a Circle is selected is a cylinder of the
\* circle's radius and height d centred at (center.x, d/2, center.z); while a
\* Rectangle is selected, a box of the corners' extents and height d centred at
\* their midpoint and d/2, for either order of the corners.  Rectangle (0,0,0),
\* (4,0,2) with d=1 gives a 4 x 1 x 2 box at (2, 0.5, 1); Circle at (2,0,3) of
\* radius 1.5 with d=4 gives a cylinder at (2,2,3) (units of 0.05).
C14_CircleAndRectangleExtrudeToCentredSolids ==
  [][/\ ExtrudeRectangle(SketchRectangle(<<0, 0, 0>>, <<80, 0, 40>>), 20).size
          = <<80, 20, 40>>
     /\ ExtrudeRectangle(SketchRectangle(<<0, 0, 0>>, <<80, 0, 40>>), 20).translation
          = <<40, 10, 20>>
     /\ ExtrudeCircle(SketchCircle(<<40, 0, 60>>, 900), 80).translation = <<40, 40, 60>>
     /\ ExtrudeCircle(SketchCircle(<<40, 0, 60>>, 900), 80).radius_sq = 900
     /\ \A i \in SelectedSet(sketches) :
          /\ sketches[i].sketch.kind = "Circle" =>
               \A k \in Emitted :
                 \E d \in DistancesRead : IsCylinder(solids'[k], sketches[i].sketch, d)
          /\ sketches[i].sketch.kind = "Rectangle" =>
               \A k \in Emitted :
                 \E d \in DistancesRead : IsBox(solids'[k], sketches[i].sketch, d)
          /\ (sketches[i].sketch.kind # "Line" /\ extrude_events = 0 /\ ui_extrude(TRUE))
               => Len(solids') = Len(solids) + 1]_vars

\* the rectangle drawn from (6,0,6) to (0,0,0) was extruded by 4 into a
\* 6 x 4 x 6 box centred at (3, 2, 3)
C14_Witness ==
  /\ Len(sketches) = 1
  /\ sketches[1].sketch.kind = "Rectangle"
  /\ sketches[1].sketch.p1 = <<6, 0, 6>>
  /\ sketches[1].sketch.p2 = <<0, 0, 0>>
  /\ sketches[1].hidden
  /\ Len(solids) = 1
  /\ solids[1].mesh = "Cuboid"
  /\ solids[1].size = <<6, 4, 6>>
  /\ solids[1].translation = <<3, 2, 3>>

\* C15: a step changes the extrude distance only when the user sets it or the
\* mode changes; the extrude command leaves it as it is, and entering and
\* exiting Sketching both leave it at the default 0.
C15_ExtrudeDistanceFrame ==
  [][/\ state' # state => sketch_data'.extrude_distance = 0
     /\ (\E ui_first \in BOOLEAN : ui_extrude(ui_first))
          => sketch_data'.extrude_distance = sketch_data.extrude_distance
     /\ sketch_data'.extrude_distance # sketch_data.extrude_distance
          => \/ state' # state
             \/ \E d \in env.distances, ui_first \in BOOLEAN : ui_drag_distance(d, ui_first)]_vars

\* a circle was extruded by 4 and the distance is still 4 in the same session
C15_Witness ==
  /\ state = "Sketching"
  /\ sketch_data.extrude_distance = 4
  /\ Len(solids) = 1
  /\ solids[1].mesh = "Cylinder"
  /\ solids[1].size[2] = 4

\* a frame with a mouse click or cancel, a tool change, a change of the extrude
\* distance or an extrude command
NeitherStartNorFinish ==
  \/ \E f \in MouseFrames(env.draw_points), right \in BOOLEAN :
       sketching_system(f.left, right, f.world_pos, f.using_pointer)
  \/ \E f \in MouseFrames(env.select_points), order \in QueryOrders(Len(sketches)) :
       selection_system(f.left, f.world_pos, f.using_pointer, order)
  \/ \E tool \in ActiveSketchTool : ui_select_tool(tool)
  \/ \E d \in env.distances, ui_first \in BOOLEAN : ui_drag_distance(d, ui_first)
  \/ \E ui_first \in BOOLEAN : ui_extrude(ui_first)

\* C16: the mode starts as Viewing and is always Viewing or Sketching; it
\* changes only from Viewing to Sketching after "start sketch" and from
\* Sketching to Viewing after "finish sketch"; a transition is requested only by
\* these two buttons, and no click, cancel, tool change or extrude command
\* changes the mode or requests a transition.
C16_ModeMachine ==
  /\ state = "Viewing"
  /\ [][/\ state' \in {"Viewing", "Sketching"}
        /\ state' # state
             => \/ state = "Viewing" /\ state' = "Sketching" /\ next_state = "Sketching"
                \/ state = "Sketching" /\ state' = "Viewing" /\ next_state = "Viewing"
        /\ (next_state' # next_state /\ next_state' # "None")
             => \/ ui_start_sketch /\ next_state' = "Sketching"
                \/ ui_finish_sketch /\ next_state' = "Viewing"
        /\ (state' # state \/ next_state' # next_state) => ~NeitherStartNorFinish]_vars

\* "finish sketch" was pressed in a session with a primitive drawn; the
\* transition to Viewing is pending
C16_Witness ==
  /\ state = "Sketching"
  /\ next_state = "Viewing"
  /\ Len(sketches) = 1

\* C17: whenever the mode is Viewing no anchor is pending, and no anchor is
\* pending when a sketch session begins.
C17_AnchorOnlyWhileSketching ==
  /\ [](state = "Viewing" => sketch_data.start_point = None)
  /\ [][(state = "Viewing" /\ state' = "Sketching")
          => sketch_data'.start_point = None]_vars

\* back in Viewing after a session in which a circle was drawn
C17_Witness ==
  /\ state = "Viewing"
  /\ next_state = "None"
  /\ Len(sketches) = 1
  /\ sketches[1].sketch.kind = "Circle"
  /\ sketch_data.start_point = None

\* a frame whose mouse input is a primary click at the valid point p, under
\* whichever tool is active
PrimaryClickAt(p) ==
  \/ sketching_system(TRUE, FALSE, p, FALSE)
  \/ \E order \in QueryOrders(Len(sketches)) : selection_system(TRUE, p, FALSE, order)

\* a frame whose mouse input is a secondary click at the valid point p, under
\* whichever tool is active
SecondaryClickAt(p) ==
  \/ sketching_system(FALSE, TRUE, p, FALSE)
  \/ \E order \in QueryOrders(Len(sketches)) : selection_system(FALSE, p, FALSE, order)

\* C18: with an anchor pending, a tool change keeps the anchor; under the tool
\* then active, Select included, a primary click at a valid point commits one
\* primitive (by the tool's rule) and leaves no anchor pending, and a secondary
\* click leaves no anchor pending.
C18_GestureSurvivesToolChange ==
  [][sketch_data.start_point # None =>
       /\ (\E tool \in ActiveSketchTool : ui_select_tool(tool))
            => sketch_data'.start_point = sketch_data.start_point
       /\ \A p \in env.draw_points \cup env.select_points :
            /\ PrimaryClickAt(p) =>
                 /\ sketch_data'.start_point = None
                 /\ Len(sketches') = Len(sketches) + 1
                 /\ active_tool \in DrawingTools =>
                      sketches'[Len(sketches')].sketch
                        = Built(active_tool, sketch_data.start_point, p)
            /\ SecondaryClickAt(p) => sketch_data'.start_point = None]_vars

\* a frame with a primary click that has no usable world point: the panel holds
\* the pointer, or screen_to_world gives nothing
UnusableClick ==
  \/ \E world_pos \in env.draw_points \cup {None}, using_pointer \in BOOLEAN :
       /\ using_pointer \/ world_pos = None
       /\ sketching_system(TRUE, FALSE, world_pos, using_pointer)
  \/ \E world_pos \in env.select_points \cup {None}, using_pointer \in BOOLEAN,
        order \in QueryOrders(Len(sketches)) :
       /\ using_pointer \/ world_pos = None
       /\ selection_system(TRUE, world_pos, using_pointer, order)

\* C19: a primary click in a frame where the panel holds the pointer or the
\* projection gives nothing leaves the anchor, the store's primitives and the
\* selection as they were.
C19_UnusableClickChangesNothing ==
  [][UnusableClick =>
       /\ sketch_data'.start_point = sketch_data.start_point
       /\ Components(sketches') = Components(sketches)
       /\ SelectedSet(sketches') = SelectedSet(sketches)]_vars

\* a rectangle is selected and an anchor is pending under the Circle tool:
\* both are there to be kept
C19_Witness ==
  /\ state = "Sketching"
  /\ next_state = "None"
  /\ active_tool = "Circle"
  /\ sketch_data.start_point = <<6, 0, 6>>
  /\ Len(sketches) = 1
  /\ sketches[1].sketch.kind = "Rectangle"
  /\ SelectedSet(sketches) = {1}

\* the metric of a line or circle c at p: the squared distance to the segment,
\* the squared distance to the circumference
MetricAt(p, c) ==
  IF c.kind = "Line"
  THEN point_line_segment_distance_sq(p, c.p1, c.p2)
  ELSE CircleMetric((p[1] - c.p1[1]) * (p[1] - c.p1[1])
                      + (p[3] - c.p1[3]) * (p[3] - c.p1[3]), c.radius_sq)

\* the lines and circles whose metric at p is below the tolerance
WithinTolerance(p, sk) ==
  {i \in 1..Len(sk) : /\ sk[i].sketch.kind # "Rectangle"
                      /\ MetricLess(MetricAt(p, sk[i].sketch), Rational(T * T, 1))}

\* those of them with the smallest metric
Smallest(p, sk) ==
  {i \in WithinTolerance(p, sk) :
     \A j \in WithinTolerance(p, sk) :
       ~MetricLess(MetricAt(p, sk[j].sketch), MetricAt(p, sk[i].sketch))}

\* the rectangles hit at p
RectanglesHit(p, sk) ==
  {i \in 1..Len(sk) : /\ sk[i].sketch.kind = "Rectangle"
                      /\ InsideOrNearBorderLine(p, sk[i].sketch.p1, sk[i].sketch.p2)}

\* the primitives the winner rule allows a click at p to select
Winners(p, sk) ==
  IF /\ RectanglesHit(p, sk) # {}
     /\ \A i \in Smallest(p, sk) : MetricLess(Rational(0, 1), MetricAt(p, sk[i].sketch))
  THEN RectanglesHit(p, sk)
  ELSE Smallest(p, sk)

\* C20: a selection click at p leaves selected a line or circle of smallest
\* metric among those below tolerance, unless a rectangle is hit and that
\* metric is not zero (or there is no such line or circle): then it leaves a
\* hit rectangle selected; with no candidate and no rectangle hit it leaves
\* nothing selected.  (Contrapositive: a step that ends otherwise is not a
\* selection click at p.)
C20_WinnerRule ==
  [][\A p \in env.select_points :
       ~(IF Winners(p, sketches) = {}
         THEN SelectedSet(sketches') = {}
         ELSE \E w \in Winners(p, sketches) : SelectedSet(sketches') = {w})
         => ~SelectClick(p)]_vars

\* the circle around (0,0,0) through (6,0,6) is selected beside the line between
\* the two points: only a click nearer to the circumference than to the
\* segment selects it
C20_Witness ==
  /\ Len(sketches) = 2
  /\ sketches[1].sketch = [kind |-> "Line", p1 |-> <<0, 0, 0>>, p2 |-> <<6, 0, 6>>,
                           radius_sq |-> 0]
  /\ sketches[2].sketch = [kind |-> "Circle", p1 |-> <<0, 0, 0>>, p2 |-> <<0, 0, 0>>,
                           radius_sq |-> 72]
  /\ SelectedSet(sketches) = {2}

\* the sketch store and the solids at the end of a frame in which
\* extrude_system reads n events with the extrude distance d
ExtrusionOutcome(n, d) == ApplyDeferred(sketches, solids, extrude_system(n, sketches, d))

\* C21: the outcome of a frame does not depend on the order in which the
\* scheduler runs the systems: the store and the solids a frame leaves when the
\* extrude button is pressed, or the extrude distance is set, with ui_system
\* before extrude_system are those it would leave with ui_system after it.
C21_FrameOutcomeIndependentOfSystemOrder ==
  [][/\ ui_extrude(TRUE) =>
          /\ sketches' = ExtrusionOutcome(extrude_events,
                                          sketch_data.extrude_distance).sketches
          /\ solids' = ExtrusionOutcome(extrude_events,
                                        sketch_data.extrude_distance).solids
     /\ \A d \in env.distances :
          ui_drag_distance(d, TRUE) =>
            /\ sketches' = ExtrusionOutcome(extrude_events,
                                            sketch_data.extrude_distance).sketches
            /\ solids' = ExtrusionOutcome(extrude_events,
                                          sketch_data.extrude_distance).solids]_vars

\* C22: no step removes or alters an emitted solid: the solids after a step
\* begin with the solids before it.
C22_SolidsOnlyGrow ==
  [][/\ Len(solids') >= Len(solids)
     /\ \A k \in 1..Len(solids) : solids'[k] = solids[k]]_vars

\* two solids emitted in an earlier session are still there in a new session,
\* whose entry emptied the sketch store
C22_Witness ==
  /\ state = "Sketching"
  /\ sketches = <<>>
  /\ Len(solids) = 2

====
